---- MODULE Spec2Model ----
(***************************************************************************)
(* Model of thermal-monitor-gui/src/app.rs: the TemperatureHistory rolling *)
(* buffer and the ThermalApp poll/update driver (update, update_state,     *)
(* change_mode, the auto / fan / slider controls and the status bar).      *)
(***************************************************************************)
EXTENDS Integers, Sequences, FiniteSets, TLC

VARIABLES
    state,             \* ThermalApp.state: the last ThermalState snapshot
    history,           \* ThermalApp.history: a TemperatureHistory
    last_update,       \* ThermalApp.last_update (an Instant, in seconds)
    status_message,    \* ThermalApp.status_message: <<>> or <<msg, instant>>
    target_temp,       \* ThermalApp.target_temp
    auto_control,      \* ThermalApp.auto_control
    fan_boost_manual,  \* ThermalApp.fan_boost_manual
    now,               \* the monotonic clock read by Instant::now()
    pc,                \* position inside eframe::App::update
    frames,            \* number of frames started so far
    pushed,            \* history of the run: every pair ever given to push
    push_times,        \* history of the run: the instant of every push
    trace,             \* calls made by the last handler, in call order
    ev                 \* the last handler that ran, with its inputs

vars == <<state, history, last_update, status_message, target_temp,
          auto_control, fan_boost_manual, now, pc, frames, pushed,
          push_times, trace, ev>>

----------------------------------------------------------------------------
(* Program constants *)

UPDATE_INTERVAL_SECS == 2
HISTORY_CAPACITY == 60
DEFAULT_TARGET_TEMP == 55
SLIDER_MIN == 40
SLIDER_MAX == 80
STATUS_TTL_SECS == 3
ON_TARGET == "On target"

(* Bounds of the model *)

MaxCap == 3
MaxPushes == 4
MaxTime == 3
MaxFrames == 2

Min(a, b) == IF a <= b THEN a ELSE b

----------------------------------------------------------------------------
(* TemperatureHistory *)

TemperatureHistory_new(capacity) ==
    [cpu_temps |-> <<>>, kbd_temps |-> <<>>, capacity |-> capacity]

\* VecDeque::pop_front: removes the first element, does nothing when empty
pop_front(q) == IF q = <<>> THEN q ELSE Tail(q)

\* push that never evicts
push_no_evict(h, cpu, kbd) ==
    [h EXCEPT !.cpu_temps = Append(h.cpu_temps, cpu),
              !.kbd_temps = Append(h.kbd_temps, kbd)]

\* VecDeque::pop_back
pop_back(q) == IF q = <<>> THEN q ELSE SubSeq(q, 1, Len(q) - 1)

\* push that evicts the newest retained pair instead of the oldest
push_evict_newest(h, cpu, kbd) ==
    LET full == Len(h.cpu_temps) >= h.capacity
        c    == IF full THEN pop_back(h.cpu_temps) ELSE h.cpu_temps
        k    == IF full THEN pop_back(h.kbd_temps) ELSE h.kbd_temps
    IN  [h EXCEPT !.cpu_temps = Append(c, cpu), !.kbd_temps = Append(k, kbd)]

\* push that evicts from the cpu queue only
push_evict_cpu_only(h, cpu, kbd) ==
    LET full == Len(h.cpu_temps) >= h.capacity
        c    == IF full THEN pop_front(h.cpu_temps) ELSE h.cpu_temps
    IN  [h EXCEPT !.cpu_temps = Append(c, cpu),
                  !.kbd_temps = Append(h.kbd_temps, kbd)]

push(h, cpu, kbd) ==
    LET full == Len(h.cpu_temps) >= h.capacity
        c    == IF full THEN pop_front(h.cpu_temps) ELSE h.cpu_temps
        k    == IF full THEN pop_front(h.kbd_temps) ELSE h.kbd_temps
    IN  [h EXCEPT !.cpu_temps = Append(c, cpu), !.kbd_temps = Append(k, kbd)]

len(h) == Len(h.cpu_temps)

is_empty(h) == h.cpu_temps = <<>>

\* `i as f64`: every index of a queue is far below 2^53 and converts exactly
usize_as_f64(i) == i

\* `t as f64`: widening an f32 keeps its value
f32_as_f64(t) == t

\* cpu_points that numbers the points from 1
cpu_points_from_one(h) ==
    [i \in 1..Len(h.cpu_temps) |->
        <<usize_as_f64(i), f32_as_f64(h.cpu_temps[i])>>]

\* TemperatureHistory::cpu_points: iter().enumerate() numbers from 0
cpu_points(h) ==
    [i \in 1..Len(h.cpu_temps) |->
        <<usize_as_f64(i - 1), f32_as_f64(h.cpu_temps[i])>>]

\* TemperatureHistory::kbd_points
kbd_points(h) ==
    [i \in 1..Len(h.kbd_temps) |->
        <<usize_as_f64(i - 1), f32_as_f64(h.kbd_temps[i])>>]

----------------------------------------------------------------------------
(* The host interface (crate::system): Mode, ThermalState::read, set_mode,  *)
(* set_fan_boost and apply_thermal_control.                                 *)

\* Mode::all(): the five requestable modes, in order
Mode_all == <<"Performance", "Comfort", "Balanced", "Quiet", "Auto">>

AllModes == {Mode_all[i] : i \in 1..Len(Mode_all)}

\* every variant of Mode, Unknown included
Modes == AllModes \cup {"Unknown"}

\* Mode::label()
label(mode) == mode

\* what the host can report on a successful read
HostCpuTemps == {45, 70}
HostKbdTemps == {35}
HostModes == {"Performance", "Unknown"}

HostReadings ==
    [cpu_temp : HostCpuTemps, keyboard_temp : HostKbdTemps, mode : HostModes,
     perf_pct : {100}, fan_boost : {TRUE}, platform_profile : {"balanced"}]

\* the snapshot read() produces when the sensors or host state are unavailable
FailedReading ==
    [cpu_temp |-> 0, keyboard_temp |-> 0, mode |-> "Unknown", perf_pct |-> 0,
     fan_boost |-> FALSE, platform_profile |-> "unknown"]

\* ThermalState::read(): always hands back a ThermalState, also when the
\* read failed
ThermalState_read == HostReadings \cup {FailedReading}

Ok(v) == <<"Ok", v>>
Err(e) == <<"Err", e>>
is_ok(r) == r[1] = "Ok"

\* results of a gateway write: set_mode, set_fan_boost
GatewayResults == {Ok("unit"), Err("Permission denied")}

\* what apply_thermal_control can answer when the cpu is over target
ControlOutcomes ==
    {Ok("Stepped down"), Err("Permission denied")}

\* apply_thermal_control(cpu_temp, target_temp): the sentinel at or under
\* target, otherwise the outcome of the corrective action
apply_thermal_control(cpu, target, outcome) ==
    IF cpu <= target THEN Ok(ON_TARGET) ELSE outcome

----------------------------------------------------------------------------
(* ThermalApp, as a record of its fields; trace collects the calls made *)

None == <<>>
Some(msg, t) == <<msg, t>>

Self ==
    [state |-> state, history |-> history, last_update |-> last_update,
     status_message |-> status_message, target_temp |-> target_temp,
     auto_control |-> auto_control, fan_boost_manual |-> fan_boost_manual,
     trace |-> <<>>]

Commit(s) ==
    /\ state' = s.state
    /\ history' = s.history
    /\ last_update' = s.last_update
    /\ status_message' = s.status_message
    /\ target_temp' = s.target_temp
    /\ auto_control' = s.auto_control
    /\ fan_boost_manual' = s.fan_boost_manual
    /\ trace' = s.trace

\* the samples a handler pushed, read off its trace
Pushes(tr) == SelectSeq(tr, LAMBDA c : c[1] = "push")

RECURSIVE Pairs(_)
Pairs(tr) ==
    IF tr = <<>> THEN <<>> ELSE <<<<Head(tr)[2], Head(tr)[3]>>>> \o Pairs(Tail(tr))

Stamps(n, t) == [i \in 1..n |-> t]

Log(s, t) ==
    /\ pushed' = pushed \o Pairs(Pushes(s.trace))
    /\ push_times' = push_times \o Stamps(Len(Pushes(s.trace)), t)

\* update_state that surfaces whatever the controller answers
update_state_surfaces_sentinel(s, rd, outcome, t) ==
    LET s1 == [s EXCEPT !.state = rd,
                        !.history = push(s.history, rd.cpu_temp, rd.keyboard_temp),
                        !.trace = s.trace \o <<<<"read">>,
                                    <<"push", rd.cpu_temp, rd.keyboard_temp>>>>]
        res == apply_thermal_control(s1.state.cpu_temp, s1.target_temp, outcome)
        s2  == [s1 EXCEPT !.trace = s1.trace \o
                   <<<<"apply_thermal_control", s1.state.cpu_temp, s1.target_temp,
                       res>>>>]
    IN  IF s1.auto_control
        THEN IF is_ok(res)
             THEN [s2 EXCEPT !.status_message = Some(res[2], t)]
             ELSE s2
        ELSE s1

\* update_state that runs the controller whether or not auto_control is set
update_state_always_controls(s, rd, outcome, t) ==
    LET s1 == [s EXCEPT !.state = rd,
                        !.history = push(s.history, rd.cpu_temp, rd.keyboard_temp),
                        !.trace = s.trace \o <<<<"read">>,
                                    <<"push", rd.cpu_temp, rd.keyboard_temp>>>>]
        res == apply_thermal_control(s1.state.cpu_temp, s1.target_temp, outcome)
        s2  == [s1 EXCEPT !.trace = s1.trace \o
                   <<<<"apply_thermal_control", s1.state.cpu_temp, s1.target_temp,
                       res>>>>]
    IN  IF is_ok(res) /\ res[2] # ON_TARGET
        THEN [s2 EXCEPT !.status_message = Some(res[2], t)]
        ELSE s2

\* ThermalApp::update_state; rd is what ThermalState::read() returns, outcome
\* what the controller's gateway write does, t is Instant::now()
update_state(s, rd, outcome, t) ==
    LET s1 == [s EXCEPT !.state = rd,
                        !.history = push(s.history, rd.cpu_temp, rd.keyboard_temp),
                        !.trace = s.trace \o <<<<"read">>,
                                    <<"push", rd.cpu_temp, rd.keyboard_temp>>>>]
        res == apply_thermal_control(s1.state.cpu_temp, s1.target_temp, outcome)
        s2  == [s1 EXCEPT !.trace = s1.trace \o
                   <<<<"apply_thermal_control", s1.state.cpu_temp, s1.target_temp,
                       res>>>>]
    IN  IF s1.auto_control
        THEN IF is_ok(res) /\ res[2] # ON_TARGET
             THEN [s2 EXCEPT !.status_message = Some(res[2], t)]
             ELSE s2
        ELSE s1

\* change_mode that refreshes the state after a failed set_mode too
change_mode_refreshes_on_error(s, mode, result, rd, outcome, t) ==
    LET s0 == [s EXCEPT !.trace = s.trace \o <<<<"set_mode", mode, result>>>>]
    IN  IF is_ok(result)
        THEN update_state(
                 [s0 EXCEPT !.status_message =
                                Some("Mode changed to " \o label(mode), t)],
                 rd, outcome, t)
        ELSE update_state(
                 [s0 EXCEPT !.status_message = Some("Error: " \o result[2], t)],
                 rd, outcome, t)

\* change_mode that requests the snapshot's mode instead of the clicked one
change_mode_requests_current(s, mode, result, rd, outcome, t) ==
    LET s0 == [s EXCEPT !.trace = s.trace \o
                   <<<<"set_mode", s.state.mode, result>>>>]
    IN  IF is_ok(result)
        THEN update_state(
                 [s0 EXCEPT !.status_message =
                                Some("Mode changed to " \o label(mode), t)],
                 rd, outcome, t)
        ELSE [s0 EXCEPT !.status_message = Some("Error: " \o result[2], t)]

\* ThermalApp::change_mode; result is what set_mode returns
change_mode(s, mode, result, rd, outcome, t) ==
    LET s0 == [s EXCEPT !.trace = s.trace \o <<<<"set_mode", mode, result>>>>]
    IN  IF is_ok(result)
        THEN update_state(
                 [s0 EXCEPT !.status_message =
                                Some("Mode changed to " \o label(mode), t)],
                 rd, outcome, t)
        ELSE [s0 EXCEPT !.status_message = Some("Error: " \o result[2], t)]

\* ThermalApp::set_status
set_status(s, msg, t) == [s EXCEPT !.status_message = Some(msg, t)]

----------------------------------------------------------------------------
(* The application: ThermalApp::default, then frames of eframe::App::update *)

Event(op, read) == [op |-> op, read |-> read]

ReadTag(rd) == IF rd = FailedReading THEN "failed" ELSE "ok"

\* values the target slider can be dragged to
SliderStops == {SLIDER_MIN, DEFAULT_TARGET_TEMP}

\* impl Default for ThermalApp
Init ==
    \E rd \in ThermalState_read :
        /\ state = rd
        /\ history = push(TemperatureHistory_new(HISTORY_CAPACITY),
                          rd.cpu_temp, rd.keyboard_temp)
        /\ last_update = 0
        /\ status_message = None
        /\ target_temp = DEFAULT_TARGET_TEMP
        /\ auto_control = FALSE
        /\ fan_boost_manual = FALSE
        /\ now = 0
        /\ pc = "idle"
        /\ frames = 0
        /\ pushed = <<<<rd.cpu_temp, rd.keyboard_temp>>>>
        /\ push_times = <<0>>
        /\ trace = <<<<"read">>, <<"push", rd.cpu_temp, rd.keyboard_temp>>>>
        /\ ev = Event("default", ReadTag(rd))

\* time passes between two frames
Advance ==
    /\ pc = "idle"
    /\ now < MaxTime
    /\ now' = now + 1
    /\ trace' = <<>>
    /\ ev' = Event("wait", "none")
    /\ UNCHANGED <<state, history, last_update, status_message, target_temp,
                   auto_control, fan_boost_manual, pc, frames, pushed, push_times>>

\* update(): the polling period has elapsed, so the frame starts with a tick
Tick ==
    /\ pc = "idle"
    /\ frames < MaxFrames
    /\ now - last_update >= UPDATE_INTERVAL_SECS
    /\ \E rd \in ThermalState_read, outcome \in ControlOutcomes :
           LET s == update_state(Self, rd, outcome, now) IN
           /\ Commit([s EXCEPT !.last_update = now])
           /\ Log(s, now)
           /\ ev' = Event("tick", ReadTag(rd))
    /\ pc' = "ui"
    /\ frames' = frames + 1
    /\ UNCHANGED now

\* update(): the polling period has not elapsed, the frame only draws
NoTick ==
    /\ pc = "idle"
    /\ frames < MaxFrames
    /\ ~(now - last_update >= UPDATE_INTERVAL_SECS)
    /\ pc' = "ui"
    /\ frames' = frames + 1
    /\ trace' = <<>>
    /\ ev' = Event("frame", "none")
    /\ UNCHANGED <<state, history, last_update, status_message, target_temp,
                   auto_control, fan_boost_manual, now, pushed, push_times>>

\* render_controls_adaptive: a click on the button of a mode that is not the
\* current one, and set_mode succeeds
ClickModeOk ==
    /\ pc = "ui"
    /\ \E i \in 1..Len(Mode_all), rd \in ThermalState_read,
          outcome \in ControlOutcomes :
           LET mode == Mode_all[i]
               s == change_mode(Self, mode, Ok("unit"), rd, outcome, now) IN
           /\ state.mode # mode
           /\ Commit(s)
           /\ Log(s, now)
           /\ ev' = Event("change_mode", ReadTag(rd))
    /\ pc' = "status"
    /\ UNCHANGED <<now, frames>>

\* render_controls_adaptive: the same click, and set_mode fails
ClickModeErr ==
    /\ pc = "ui"
    /\ \E i \in 1..Len(Mode_all), result \in GatewayResults \ {Ok("unit")} :
           LET mode == Mode_all[i]
               s == change_mode(Self, mode, result, FailedReading,
                                Err("Permission denied"), now) IN
           /\ state.mode # mode
           /\ Commit(s)
           /\ Log(s, now)
           /\ ev' = Event("change_mode", "none")
    /\ pc' = "status"
    /\ UNCHANGED <<now, frames>>

\* render_target_temp_adaptive: the slider is dragged to another value
SlideTarget ==
    /\ pc = "ui"
    /\ \E t \in SliderStops \ {target_temp} : target_temp' = t
    /\ pc' = "status"
    /\ trace' = <<>>
    /\ ev' = Event("slider", "none")
    /\ UNCHANGED <<state, history, last_update, status_message, auto_control,
                   fan_boost_manual, now, frames, pushed, push_times>>

\* render_target_temp_adaptive: a click on the AUTO / OFF button
ClickAuto ==
    /\ pc = "ui"
    /\ LET s == [Self EXCEPT !.auto_control = ~auto_control] IN
       Commit(set_status(s, IF s.auto_control THEN "Auto ON" ELSE "Auto OFF", now))
    /\ pc' = "status"
    /\ ev' = Event("auto", "none")
    /\ UNCHANGED <<now, frames, pushed, push_times>>

\* render_fan_control_adaptive: a click on the BOOST / NORMAL button; the
\* result of set_fan_boost is discarded
ClickFan ==
    /\ pc = "ui"
    /\ \E result \in GatewayResults :
           LET s == [Self EXCEPT !.fan_boost_manual = ~fan_boost_manual,
                                 !.trace = <<<<"set_fan_boost",
                                               ~fan_boost_manual>>>>] IN
           Commit(set_status(s, IF s.fan_boost_manual THEN "Fan boost"
                                                      ELSE "Fan auto", now))
    /\ pc' = "status"
    /\ ev' = Event("fan", "none")
    /\ UNCHANGED <<now, frames, pushed, push_times>>

\* a frame in which the user touches nothing
NoInput ==
    /\ pc = "ui"
    /\ pc' = "status"
    /\ trace' = <<>>
    /\ ev' = Event("none", "none")
    /\ UNCHANGED <<state, history, last_update, status_message, target_temp,
                   auto_control, fan_boost_manual, now, frames, pushed, push_times>>

\* render_status: a message older than three seconds is cleared
render_status(s, t) ==
    IF s.status_message # None /\ ~(t - s.status_message[2] < STATUS_TTL_SECS)
    THEN [s EXCEPT !.status_message = None]
    ELSE s

RenderStatus ==
    /\ pc = "status"
    /\ Commit(render_status(Self, now))
    /\ pc' = "idle"
    /\ ev' = Event("render_status", "none")
    /\ UNCHANGED <<now, frames, pushed, push_times>>

Next ==
    \/ Advance
    \/ Tick
    \/ NoTick
    \/ ClickModeOk
    \/ ClickModeErr
    \/ SlideTarget
    \/ ClickAuto
    \/ ClickFan
    \/ NoInput
    \/ RenderStatus

Spec == Init /\ [][Next]_vars

----------------------------------------------------------------------------
(* A TemperatureHistory on its own: new(capacity), then any pushes *)

HistCapacities == 0..MaxCap
HistCpuTemps == {40, 42, 44}
HistKbdTemps == {35, 36}

HistInit ==
    /\ \E capacity \in HistCapacities : history = TemperatureHistory_new(capacity)
    /\ state = FailedReading
    /\ last_update = 0
    /\ status_message = None
    /\ target_temp = DEFAULT_TARGET_TEMP
    /\ auto_control = FALSE
    /\ fan_boost_manual = FALSE
    /\ now = 0
    /\ pc = "history"
    /\ frames = 0
    /\ pushed = <<>>
    /\ push_times = <<>>
    /\ trace = <<>>
    /\ ev = Event("new", "none")

HistPush ==
    /\ Len(pushed) < MaxPushes
    /\ \E cpu \in HistCpuTemps, kbd \in HistKbdTemps :
           /\ history' = push(history, cpu, kbd)
           /\ pushed' = Append(pushed, <<cpu, kbd>>)
           /\ trace' = <<<<"push", cpu, kbd>>>>
    /\ ev' = Event("push", "none")
    /\ UNCHANGED <<state, last_update, status_message, target_temp, auto_control,
                   fan_boost_manual, now, pc, frames, push_times>>

\* cpu_points() and kbd_points() are called on the buffer (&self)
HistPoints ==
    /\ trace' = <<<<"cpu_points", cpu_points(history)>>,
                  <<"kbd_points", kbd_points(history)>>>>
    /\ ev' = Event("points", "none")
    /\ UNCHANGED <<state, history, last_update, status_message, target_temp,
                   auto_control, fan_boost_manual, now, pc, frames, pushed,
                   push_times>>

HistNext == HistPush \/ HistPoints

HistSpec == HistInit /\ [][HistNext]_vars

----------------------------------------------------------------------------
(* Properties of TemperatureHistory, checked under HistSpec *)

\* the retained (cpu, keyboard) pairs, oldest first
Retained(h) == [i \in 1..len(h) |-> <<h.cpu_temps[i], h.kbd_temps[i]>>]

\* C1: for every capacity C >= 1, after N pushes len() = min(N, C), and
\* is_empty() holds exactly when N = 0
C1_LenIsMinOfPushesAndCapacity ==
    history.capacity >= 1 =>
        /\ len(history) = Min(Len(pushed), history.capacity)
        /\ is_empty(history) <=> (Len(pushed) = 0)

C1_Witness ==
    /\ history.capacity >= 1
    /\ Len(pushed) > history.capacity
    /\ len(history) = history.capacity
    /\ ~is_empty(history)

\* C2: for every capacity the constructor accepts, 0 included, len() never
\* exceeds the capacity
C2_LenNeverExceedsCapacity == len(history) <= history.capacity

\* C3: for every capacity C >= 1, the retained pairs are the last min(N, C)
\* pushed pairs in push order; C+1 pushes evict exactly the first pair
C3_RetainsLastPushedInOrder ==
    history.capacity >= 1 =>
        LET n == Len(pushed)
            k == Min(n, history.capacity)
        IN  /\ Retained(history) = SubSeq(pushed, n - k + 1, n)
            /\ n = history.capacity + 1 => Retained(history) = Tail(pushed)

C3_Witness ==
    /\ history.capacity >= 2
    /\ Len(pushed) = history.capacity + 1
    /\ \A i, j \in 1..Len(pushed) : i # j => pushed[i] # pushed[j]
    /\ Retained(history) = Tail(pushed)

\* C4: the cpu queue and the keyboard queue always have the same length, and
\* their i-th values were given to the same push call
C4_PairSynchronized ==
    /\ Len(history.cpu_temps) = Len(history.kbd_temps)
    /\ LET k == Len(pushed) - Len(history.cpu_temps) IN
       /\ k >= 0
       /\ \A i \in 1..Len(history.cpu_temps) :
              /\ history.cpu_temps[i] = pushed[k + i][1]
              /\ history.kbd_temps[i] = pushed[k + i][2]

C4_Witness ==
    /\ Len(pushed) > Len(history.cpu_temps)
    /\ Len(history.cpu_temps) >= 2
    /\ Len(history.kbd_temps) = Len(history.cpu_temps)
    /\ pushed[1][2] # pushed[2][2]

----------------------------------------------------------------------------
(* Properties of the poll/update driver, checked under Spec *)

\* the calls of apply_thermal_control in a handler's trace
ControlCalls(tr) == SelectSeq(tr, LAMBDA c : c[1] = "apply_thermal_control")

\* the controller was called and answered the sentinel
AnsweredOnTarget(tr) ==
    \E i \in 1..Len(ControlCalls(tr)) : ControlCalls(tr)[i][4] = Ok(ON_TARGET)

\* the controller was called and answered an error
AnsweredError(tr) ==
    \E i \in 1..Len(ControlCalls(tr)) : ~is_ok(ControlCalls(tr)[i][4])

\* C5: a poll tick whose Gateway read fails keeps the previous ThermalState
\* and pushes no sample into the history
C5_FailedReadKeepsStateAndHistory ==
    [][ev'.op = "tick" /\ ev'.read = "failed" =>
           /\ state' = state
           /\ history' = history
           /\ pushed' = pushed]_vars

\* C6: whatever the user does, no two samples are pushed into the history
\* within one polling period
C6_OnePushPerPeriod ==
    \A i, j \in 1..Len(push_times) :
        i < j => push_times[j] - push_times[i] >= UPDATE_INTERVAL_SECS

\* C7: status_message is never the sentinel "On target", and a poll tick in
\* which the controller answers Ok("On target") leaves status_message as it was
C7_SentinelNeverSurfaced ==
    /\ [](status_message # None => status_message[1] # ON_TARGET)
    /\ [][ev'.op = "tick" /\ AnsweredOnTarget(trace') =>
              status_message' = status_message]_vars

C7_Witness ==
    /\ ev.op = "tick"
    /\ auto_control
    /\ AnsweredOnTarget(trace)
    /\ status_message # None
    /\ status_message[1] = "Auto ON"

\* C8: with automatic control enabled, an error answered by the controller
\* during a poll tick is put into status_message, as a failed mode change is
C8_ControlErrorSurfaced ==
    [][ev'.op = "tick" /\ AnsweredError(trace') =>
           /\ status_message' # None
           /\ status_message'[2] = now'
           /\ \E e \in {"Permission denied"} :
                  status_message'[1] = "Error: " \o e]_vars

\* the set_mode call of a handler's trace failed
SetModeFailed(tr) == tr # <<>> /\ tr[1][1] = "set_mode" /\ ~is_ok(tr[1][3])

\* C9: a mode change whose set_mode fails sets status_message to an error
\* message and changes nothing else: no read, no push, same snapshot, history,
\* target_temp, auto_control and fan_boost_manual
C9_FailedModeChangeOnlySetsStatus ==
    [][ev'.op = "change_mode" /\ SetModeFailed(trace') =>
           /\ status_message' = Some("Error: " \o trace'[1][3][2], now')
           /\ Len(trace') = 1
           /\ state' = state
           /\ history' = history
           /\ pushed' = pushed
           /\ last_update' = last_update
           /\ target_temp' = target_temp
           /\ auto_control' = auto_control
           /\ fan_boost_manual' = fan_boost_manual]_vars

C9_Witness ==
    /\ ev.op = "change_mode"
    /\ SetModeFailed(trace)
    /\ status_message = Some("Error: Permission denied", now)
    /\ Len(pushed) = 1

\* C10: a poll tick makes one Gateway read that replaces the snapshot, then
\* one push of that snapshot's (cpu_temp, keyboard_temp), then, exactly when
\* auto_control is set, one call of the controller with that cpu_temp and the
\* current target_temp; without auto_control it leaves status_message alone
C10_TickCallOrder ==
    [][ev'.op = "tick" =>
           LET sample == <<state'.cpu_temp, state'.keyboard_temp>>
               head   == <<<<"read">>, <<"push", sample[1], sample[2]>>>>
           IN  /\ SubSeq(trace', 1, 2) = head
               /\ pushed' = Append(pushed, sample)
               /\ Retained(history') = Append(Retained(history), sample)
               /\ IF auto_control
                  THEN /\ Len(trace') = 3
                       /\ SubSeq(trace'[3], 1, 3) =
                              <<"apply_thermal_control", sample[1], target_temp>>
                  ELSE /\ trace' = head
                       /\ status_message' = status_message]_vars

C10_Witness ==
    /\ ev.op = "tick"
    /\ auto_control
    /\ Len(trace) = 3
    /\ trace[3][1] = "apply_thermal_control"
    /\ trace[3][2] = state.cpu_temp
    /\ trace[3][2] > trace[3][3]

C10_WitnessOff ==
    /\ ev.op = "tick"
    /\ ~auto_control
    /\ Len(trace) = 2
    /\ status_message # None

\* the set_mode requests in a handler's trace
SetModeCalls(tr) == SelectSeq(tr, LAMBDA c : c[1] = "set_mode")

PointsOfRetained(pts, col) ==
    LET n == len(history)
        k == Len(pushed) - n
    IN  /\ Len(pts) = n
        /\ \A i \in 1..Len(pts) :
               /\ pts[i][1] = i - 1
               /\ i > 1 => pts[i - 1][1] < pts[i][1]
               /\ pts[i][2] = pushed[k + i][col]

\* C12: in every reachable state cpu_points() and kbd_points() yield len()
\* points with indices 0..len()-1 in increasing order, index i carrying the
\* i-th oldest retained value, and calling them leaves the buffer as it was
C12_PointsIndexRetained ==
    /\ [](ev.op = "points" =>
              /\ trace[1][1] = "cpu_points"
              /\ PointsOfRetained(trace[1][2], 1)
              /\ trace[2][1] = "kbd_points"
              /\ PointsOfRetained(trace[2][2], 2))
    /\ [][ev'.op = "points" => history' = history]_vars

C12_Witness ==
    /\ ev.op = "points"
    /\ len(history) >= 2
    /\ Len(pushed) > len(history)
    /\ trace[1][2][2] = <<1, pushed[Len(pushed) - len(history) + 2][1]>>
    /\ trace[2][2][1] = <<0, pushed[Len(pushed) - len(history) + 1][2]>>
    /\ pushed[1] # pushed[Len(pushed) - len(history) + 1]

\* the set_mode call of a handler's trace succeeded
SetModeSucceeded(tr) == tr # <<>> /\ tr[1][1] = "set_mode" /\ is_ok(tr[1][3])

\* C13: when change_mode returns after a successful set_mode for mode m, the
\* status message is "Mode changed to <label of m>", with automatic control
\* on or off and whatever the refreshed temperature is
C13_ModeChangeMessageStands ==
    [][ev'.op = "change_mode" /\ SetModeSucceeded(trace') =>
           status_message' =
               Some("Mode changed to " \o label(trace'[1][2]), now')]_vars

====
